---- MODULE Spec2Model ----
(***************************************************************************)
(* Strength-preserving randomisation by simulated annealing:               *)
(*   strength_preserving_rand_sa_signed      (signed variant)              *)
(*   strength_preserving_rand_sa_trajectory  (trajectory variant)          *)
(*                                                                         *)
(* Conventions of the model                                                *)
(*  - a matrix is a function on Nodes \X Nodes, a vector a function on     *)
(*    Nodes; node indices are the code's (0-based);                        *)
(*  - the edge arrays u, v, wts are sequences, so edge k of the code is    *)
(*    edge k+1 here and randint(m) draws from 1..m;                        *)
(*  - weights are integers and arithmetic is exact.  A mean over the n     *)
(*    nodes is kept as its numerator over the fixed denominator n, and a   *)
(*    root mean as the numerator of its radicand: within one run the       *)
(*    order of two energies of one kind is the order of these integers;    *)
(*  - a cooling fraction or a temperature is a pair <<num, den>>, den > 0; *)
(*  - a uniform draw compared with exp(-delta/temp) is a free choice       *)
(*    where delta > 0 and is certain to be below it where delta = 0        *)
(*    (exp(0) = 1 and the draw is in [0, 1)).                              *)
(***************************************************************************)
EXTENDS Integers, Sequences, FiniteSets, TLC

\* ------------------------------------------------------------------ bounds
N == 4
MaxW == 3
NStage == 2
NIter == 2

\* default temp of both signatures
DefaultTemp == 1000

Nodes == 0..(N - 1)
Pairs == Nodes \X Nodes
UpperSlots == {p \in Pairs : p[1] < p[2]}

\* ------------------------------------------------------------------ numpy
Zeros == [p \in Pairs |-> 0]

Abs(x) == IF x < 0 THEN -x ELSE x

RECURSIVE SumTo(_, _)
SumTo(f, k) == IF k < 0 THEN 0 ELSE f[k] + SumTo(f, k - 1)

\* np.sum over a vector
Sum(f) == SumTo(f, N - 1)

\* np.max over a vector
MaxOf(f) == CHOOSE x \in {f[i] : i \in Nodes} : \A i \in Nodes : f[i] <= x

\* np.sum(M, axis = 1)
RowSums(M) == [i \in Nodes |-> Sum([j \in Nodes |-> M[<<i, j>>]])]

\* M.T
Transpose(M) == [p \in Pairs |-> M[<<p[2], p[1]>>]]

MatAdd(X, Y) == [p \in Pairs |-> X[p] + Y[p]]

\* np.triu(M, k = 1)
Triu1(M) == [p \in Pairs |-> IF p[1] < p[2] THEN M[p] ELSE 0]

\* the index pairs of a matrix in row-major order
RowMajor == [k \in 1..(N * N) |-> <<(k - 1) \div N, (k - 1) % N>>]

\* M.nonzero(): the index pairs of the non-zero entries, row-major
Nonzero(M) == SelectSeq(RowMajor, LAMBDA p : M[p] # 0)

\* M[(u, v)]
Gather(M, uu, vv) == [k \in 1..Len(uu) |-> M[<<uu[k], vv[k]>>]]

\* M[(u, v)] = w stopping one edge short
ScatterDropLast(M, uu, vv, w) ==
  [p \in Pairs |->
     IF \E k \in 1..(Len(uu) - 1) : <<uu[k], vv[k]>> = p
     THEN w[CHOOSE k \in 1..(Len(uu) - 1) : <<uu[k], vv[k]>> = p]
     ELSE M[p]]

\* M[(u, v)] = w
Scatter(M, uu, vv, w) ==
  [p \in Pairs |->
     IF \E k \in 1..Len(uu) : <<uu[k], vv[k]>> = p
     THEN w[CHOOSE k \in 1..Len(uu) : <<uu[k], vv[k]>> = p]
     ELSE M[p]]

\* the copy with its negative entries left in
ZeroNegativeOmitted(M) == M

\* X[X < 0] = 0 on a copy
ZeroNegative(M) == [p \in Pairs |-> IF M[p] < 0 THEN 0 ELSE M[p]]

\* X[X > 0] = 0 on a copy
ZeroPositive(M) == [p \in Pairs |-> IF M[p] > 0 THEN 0 ELSE M[p]]

\* w[e1] = w[e2] without the exchange
SwapWtsOverwrite(w, e1, e2) == [w EXCEPT ![e1] = w[e2]]

\* w[[e1, e2]] = w[[e2, e1]]
SwapWts(w, e1, e2) == [w EXCEPT ![e1] = w[e2], ![e2] = w[e1]]

\* a - b on vectors
VecSub(x, y) == [i \in Nodes |-> x[i] - y[i]]

\* ------------------------------------------------------------------ energy
EnergyTypes == {"sse", "max", "mae", "mse", "rmse"}

\* The predefined energies of a difference vector d (see the conventions for
\* the means and the root).
EnergyOfType(kind, d) ==
  CASE kind = "sse"  -> Sum([i \in Nodes |-> d[i] * d[i]])
    [] kind = "max"  -> MaxOf([i \in Nodes |-> Abs(d[i])])
    [] kind = "mae"  -> Sum([i \in Nodes |-> Abs(d[i])])
    [] kind = "mse"  -> Sum([i \in Nodes |-> d[i] * d[i]])
    [] kind = "rmse" -> Sum([i \in Nodes |-> d[i] * d[i]])

\* A caller's energy_func(x, y): here the sum of the squared shortfalls of y
\* below x, which depends on the order of its two arguments.
CustomEnergy(x, y) ==
  Sum([i \in Nodes |->
         IF x[i] > y[i] THEN (x[i] - y[i]) * (x[i] - y[i]) ELSE 0])

\* ------------------------------------------------------------------ inputs
\* the symmetric zero-diagonal matrix with weight w[e] on the edges e of E
FromEdges(E, w) ==
  [p \in Pairs |->
     IF p \in E THEN w[p]
     ELSE IF <<p[2], p[1]>> \in E THEN w[<<p[2], p[1]>>]
     ELSE 0]

\* the path 0 - 1 - 2 - 3 and the star centred on 0
PathEdges == {<<0, 1>>, <<1, 2>>, <<2, 3>>}
StarEdges == {<<0, 1>>, <<0, 2>>, <<0, 3>>}

\* the weighted graphs on the edges E with weights from W
Weighted(E, W) == {FromEdges(E, w) : w \in [E -> W]}

SignedWeights == ((-MaxW)..MaxW) \ {0}
PositiveWeights == 1..MaxW
FewWeights == {-MaxW, -1, 1, MaxW}

\* One double-edge swap of Maslov & Sneppen: edges (a, b), (c, d) on four
\* distinct nodes become (a, d), (c, b), each keeping its weight.
EdgeSwap(M, a, b, c, d) ==
  [p \in Pairs |->
     CASE p = <<a, d>> \/ p = <<d, a>> -> M[<<a, b>>]
       [] p = <<c, b>> \/ p = <<b, c>> -> M[<<c, d>>]
       [] p = <<a, b>> \/ p = <<b, a>> -> 0
       [] p = <<c, d>> \/ p = <<d, c>> -> 0
       [] OTHER -> M[p]]

\* What the rewiring collaborator may return for M: M itself or M after one
\* swap that creates no double edge and, for signed input, swaps within a sign.
Rewirings(M) ==
  {M} \cup
  {EdgeSwap(M, q[1], q[2], q[3], q[4]) :
     q \in {q \in Nodes \X Nodes \X Nodes \X Nodes :
              /\ Cardinality({q[1], q[2], q[3], q[4]}) = 4
              /\ M[<<q[1], q[2]>>] # 0 /\ M[<<q[3], q[4]>>] # 0
              /\ M[<<q[1], q[4]>>] = 0 /\ M[<<q[3], q[2]>>] = 0
              /\ (M[<<q[1], q[2]>>] > 0) = (M[<<q[3], q[4]>>] > 0)}}

\* a caller's pre-randomised matrix: M with node i renamed i + 1 (mod N)
Relabel(M) == [p \in Pairs |-> M[<<(p[1] + 1) % N, (p[2] + 1) % N>>]]

\* the 4-cycle (0,1),(1,2),(2,3),(3,0) with weights 1, 2, 3, 4
Cycle4 ==
  [p \in Pairs |->
     CASE p = <<0, 1>> \/ p = <<1, 0>> -> 1
       [] p = <<1, 2>> \/ p = <<2, 1>> -> 2
       [] p = <<2, 3>> \/ p = <<3, 2>> -> 3
       [] p = <<3, 0>> \/ p = <<0, 3>> -> 4
       [] OTHER -> 0]

\* cooling fractions a caller may pass: 0, 3/2, -1, 1/2, 1
Fracs == {<<0, 1>>, <<3, 2>>, <<-1, 1>>, <<1, 2>>, <<1, 1>>}


\* ------------------------------------------------------------------ state
VARIABLES
  variant,        \* "signed" or "trajectory": the function called
  A,              \* the reference matrix
  R,              \* the signed variant's R: [given, M]
  nstage, niter,  \* the schedule's stage and iteration counts
  init_temp,      \* the temp argument
  frac,           \* the cooling fraction
  energy_type,    \* the energy_type argument
  energy_func,    \* "None" or "custom"
  pc,             \* the position in the function
  err,            \* "none" or the exception that ended the call
  rs,             \* TRUE once check_random_state has made the generator
  rewired,        \* TRUE once the rewired matrix exists
  Brw,            \* the rewired matrix (B before it is reset to zeros)
  strengths,      \* [pos, neg]: the target strengths per sign
  signed_B,       \* [pos, neg]: the rewired matrix per sign
  B,              \* the output matrix under construction
  energymin_dict, \* sign -> minimum energy
  sign,           \* index into Signs of the sub-run
  temp,           \* the current temperature
  u, v, wts,      \* the edge list
  s, sb,          \* target and current strengths
  energy, energymin, wtsmin,
  istage, i,      \* the loop counters
  last,           \* the latest proposal: its energy change as the loop
                  \* body computed it, whether the uniform draw was read,
                  \* whether it was accepted
  traj,           \* the four trajectories of the trajectory variant
  ret             \* the value returned

vars == <<variant, A, R, nstage, niter, init_temp, frac, energy_type,
          energy_func, pc, err, rs, rewired, Brw, strengths, signed_B, B, energymin_dict, sign,
          temp, u, v, wts, s, sb, energy, energymin, wtsmin, istage, i, last,
          traj, ret>>

args == <<variant, A, R, nstage, niter, init_temp, frac, energy_type,
          energy_func>>
edges == <<u, v, wts, s, sb, energy, energymin, wtsmin>>
split == <<Brw, strengths, signed_B>>

Signs == <<"pos", "neg">>

m == Len(wts)

ZeroVec == [k \in Nodes |-> 0]

NoProposal ==
  [proposed |-> FALSE, delta |-> 0, drew |-> FALSE, accepted |-> FALSE]

NoTraj ==
  [strengths |-> <<>>, energy |-> <<>>, cpl |-> <<>>, clustering |-> <<>>]

NoReturn == [kind |-> "none"]

\* the part of the initial state that is the same for every call
Fresh ==
  /\ pc = "start" /\ err = "none" /\ rs = FALSE /\ rewired = FALSE
  /\ Brw = Zeros
  /\ strengths = [pos |-> ZeroVec, neg |-> ZeroVec]
  /\ signed_B = [pos |-> Zeros, neg |-> Zeros]
  /\ B = Zeros /\ energymin_dict = <<>> /\ sign = 1
  /\ temp = <<0, 1>>
  /\ u = <<>> /\ v = <<>> /\ wts = <<>>
  /\ s = ZeroVec /\ sb = ZeroVec
  /\ energy = 0 /\ energymin = 0 /\ wtsmin = <<>>
  /\ istage = 0 /\ i = 0
  /\ last = NoProposal /\ traj = NoTraj /\ ret = NoReturn

\* ------------------------------------------------------------------ shared steps
\* frac >= 1 or frac <= 0
FracInvalidAtOne(f) == f[1] >= f[2] \/ f[1] <= 0

\* frac > 1 or frac <= 0
FracInvalid(f) == f[1] > f[2] \/ f[1] <= 0

\* temp * frac
Cool(t, f) == <<t[1] * f[1], t[2] * f[2]>>

\* the edge list of a matrix: u, v = np.triu(M, k = 1).nonzero()
EdgeIdx(M) == Nonzero(Triu1(M))
EdgeU(M) == [k \in 1..Len(EdgeIdx(M)) |-> EdgeIdx(M)[k][1]]
EdgeV(M) == [k \in 1..Len(EdgeIdx(M)) |-> EdgeIdx(M)[k][2]]
\* wts = np.triu(M, k = 1)[(u, v)]
EdgeW(M) == Gather(Triu1(M), EdgeU(M), EdgeV(M))

\* the zero matrix with w written at (u, v)
Placed(w) == Scatter(Zeros, u, v, w)

\* X without its transpose added
SymmetrizeOmitted(X) == X

\* X + X.T
Symmetrize(X) == MatAdd(X, Transpose(X))

\* energy > energymin
ImprovesReversed(e, emin) == e > emin

\* energy < energymin
Improves(e, emin) == e < emin

\* The outcomes of rs.rand() < exp(-delta / temp), by the sign of delta.
RandBelowExp(delta) == IF delta <= 0 THEN {TRUE} ELSE BOOLEAN

\* the call ends with an exception; the frame's locals die with it
Raise(kind) ==
  /\ pc' = "error" /\ err' = kind

\* ------------------------------------------------------------------ signed variant
\* the validation of frac in the signed variant
S_CheckFrac ==
  /\ variant = "signed" /\ pc = "start"
  /\ IF FracInvalid(frac)
     THEN Raise("ValueError")
     ELSE pc' = "checked" /\ err' = err
  /\ UNCHANGED <<args, rs, rewired, split, B, energymin_dict, sign, temp,
                 edges, istage, i, last, traj, ret>>

\* rs = check_random_state(seed) and the target strengths per sign
S_Seed ==
  /\ variant = "signed" /\ pc = "checked"
  /\ rs' = TRUE
  /\ strengths' = [pos |-> RowSums(ZeroNegative(A)),
                   neg |-> RowSums(ZeroPositive(A))]
  /\ pc' = "seeded"
  /\ UNCHANGED <<args, err, rewired, Brw, signed_B, B, energymin_dict, sign,
                 temp, edges, istage, i, last, traj, ret>>

\* the rewiring (or the caller's R), the split by sign, B = zeros
S_Rewire ==
  /\ variant = "signed" /\ pc = "seeded"
  /\ \E X \in (IF R.given THEN {R.M} ELSE Rewirings(A)) :
       /\ Brw' = X
       /\ signed_B' = [pos |-> ZeroNegative(X), neg |-> ZeroPositive(X)]
  /\ rewired' = TRUE
  /\ B' = Zeros
  /\ energymin_dict' = <<>>
  /\ sign' = 1
  /\ pc' = "sign"
  /\ UNCHANGED <<args, err, rs, strengths, temp, edges, istage, i, last,
                 traj, ret>>

\* the energy of the signed variant before the first proposal
S_InitialEnergy(tgt, cur) ==
  IF energy_func # "None" THEN CustomEnergy(tgt, cur)
  ELSE EnergyOfType(energy_type, VecSub(tgt, cur))

\* the energy of the signed variant at a proposal
S_ProposalEnergy(cand, tgt) ==
  IF energy_func # "None" THEN CustomEnergy(cand, tgt)
  ELSE EnergyOfType(energy_type, VecSub(cand, tgt))

\* the temperature left by the previous sign's sub-run carried over
S_StartTempCarried == IF sign = 1 THEN init_temp ELSE temp

\* temp = init_temp at the head of a sign's sub-run
S_StartTemp == init_temp

\* the else branch taken whatever energy_func is
S_EnergyUndefinedDespiteFunc == energy_type \notin EnergyTypes

\* the if / elif chain over energy_func and energy_type reaches its else
S_EnergyUndefined == energy_func = "None" /\ energy_type \notin EnergyTypes

\* the head of the loop over the signs, up to the first stage
S_BeginSign ==
  /\ variant = "signed" /\ pc = "sign"
  /\ LET curr_B == signed_B[Signs[sign]]
         tgt == strengths[Signs[sign]]
     IN IF S_EnergyUndefined
        THEN /\ Raise("ValueError")
             /\ UNCHANGED <<temp, edges, istage, i>>
        ELSE /\ temp' = S_StartTemp
             /\ s' = tgt
             /\ u' = EdgeU(curr_B)
             /\ v' = EdgeV(curr_B)
             /\ wts' = EdgeW(curr_B)
             /\ sb' = RowSums(curr_B)
             /\ energy' = S_InitialEnergy(tgt, RowSums(curr_B))
             /\ energymin' = energy'
             /\ wtsmin' = wts'
             /\ istage' = 0 /\ i' = 0
             /\ pc' = "loop" /\ err' = err
  /\ UNCHANGED <<args, rs, rewired, split, B, energymin_dict, sign, last,
                 traj, ret>>

\* sb_prime with the entries of c and d computed from sb instead of sb_prime
S_SbPrimeFromSb(e1, e2) ==
  LET a == u[e1]
      b == v[e1]
      c == u[e2]
      d == v[e2]
      t == [sb EXCEPT ![a] = sb[a] - wts[e1] + wts[e2],
                      ![b] = sb[b] - wts[e1] + wts[e2]]
  IN [t EXCEPT ![c] = sb[c] + wts[e1] - wts[e2],
               ![d] = sb[d] + wts[e1] - wts[e2]]

\* sb_prime of the signed variant for the edges e1, e2
S_SbPrime(e1, e2) ==
  LET a == u[e1]
      b == v[e1]
      c == u[e2]
      d == v[e2]
      t == [sb EXCEPT ![a] = sb[a] - wts[e1] + wts[e2],
                      ![b] = sb[b] - wts[e1] + wts[e2]]
  IN [t EXCEPT ![c] = t[c] + wts[e1] - wts[e2],
               ![d] = t[d] + wts[e1] - wts[e2]]

\* sb after a rejected proposal had sb_prime been sb itself, not a copy
S_SbRejectedAliased(e1, e2) == S_SbPrime(e1, e2)

\* sb after a rejected proposal: sb_prime = sb.copy() leaves sb as it was
S_SbRejected(e1, e2) == sb

\* energy_prime <= energy
S_DownhillOrLevel(energy_prime, e) == energy_prime <= e

\* energy_prime < energy, the left operand of the acceptance test: where it
\* holds `or` does not evaluate rs.rand()
S_Downhill(energy_prime, e) == energy_prime < e

\* one pass of the inner loop of the signed variant
S_Propose ==
  /\ variant = "signed" /\ pc = "loop" /\ istage < nstage /\ i < niter
  /\ IF m = 0
     THEN /\ Raise("ValueError")
          /\ UNCHANGED <<edges, i, last>>
     ELSE \E e1 \in 1..m, e2 \in 1..m :
            LET sb_prime == S_SbPrime(e1, e2)
                energy_prime == S_ProposalEnergy(sb_prime, s)
                down == S_Downhill(energy_prime, energy)
            IN \E below \in (IF down THEN {TRUE}
                             ELSE RandBelowExp(energy_prime - energy)) :
                 /\ last' = [proposed |-> TRUE,
                             delta |-> energy_prime - energy,
                             drew |-> ~down, accepted |-> below]
                 /\ IF below
                    THEN /\ sb' = sb_prime
                         /\ wts' = SwapWts(wts, e1, e2)
                         /\ energy' = energy_prime
                         /\ IF Improves(energy_prime, energymin)
                            THEN energymin' = energy_prime /\ wtsmin' = wts'
                            ELSE UNCHANGED <<energymin, wtsmin>>
                    ELSE /\ sb' = S_SbRejected(e1, e2)
                         /\ UNCHANGED <<wts, energy, energymin, wtsmin>>
                 /\ i' = i + 1
                 /\ UNCHANGED <<u, v, s, pc, err>>
  /\ UNCHANGED <<args, rs, rewired, split, B, energymin_dict, sign, temp,
                 istage, traj, ret>>

\* the end of a stage of the signed variant: temp = temp * frac
S_Cool ==
  /\ variant = "signed" /\ pc = "loop" /\ istage < nstage /\ i = niter
  /\ temp' = Cool(temp, frac)
  /\ istage' = istage + 1
  /\ i' = 0
  /\ UNCHANGED <<args, pc, err, rs, rewired, split, B, energymin_dict, sign,
                 edges, last, traj, ret>>

\* the stage loop left as soon as the best energy is zero
S_StagesDoneOrZero == istage = nstage \/ energymin = 0

\* for istage in range(nstage) is exhausted
S_StagesDone == istage = nstage

\* the end of a sign's sub-run: B[(u, v)] = wtsmin and the dictionary entry
S_EndSign ==
  /\ variant = "signed" /\ pc = "loop" /\ S_StagesDone
  /\ B' = Scatter(B, u, v, wtsmin)
  /\ energymin_dict' =
       [k \in DOMAIN energymin_dict \cup {Signs[sign]} |->
          IF k = Signs[sign] THEN energymin ELSE energymin_dict[k]]
  /\ IF sign < Len(Signs)
     THEN sign' = sign + 1 /\ pc' = "sign"
     ELSE sign' = sign /\ pc' = "return"
  /\ UNCHANGED <<args, err, rs, rewired, split, temp, edges, istage, i, last,
                 traj, ret>>

\* what the signed variant returns as its second result
S_SecondResult == [type |-> "float", value |-> energymin]

\* B = B + B.T and the return
S_Return ==
  /\ variant = "signed" /\ pc = "return"
  /\ B' = Symmetrize(B)
  /\ ret' = [kind |-> "signed", B |-> B', energymin |-> S_SecondResult]
  /\ pc' = "done"
  /\ UNCHANGED <<args, err, rs, rewired, split, energymin_dict, sign, temp,
                 edges, istage, i, last, traj>>

\* The calls of the signed variant the model follows: the signed paths,
\* rewired, and the signed stars and the empty graph with the caller's R, with
\* the default arguments;
S_ArgsMatrices ==
  /\ nstage = NStage /\ niter = NIter
  /\ init_temp = <<DefaultTemp, 1>>
  /\ \/ /\ A \in Weighted(PathEdges, SignedWeights)
        /\ R = [given |-> FALSE, M |-> Zeros]
     \/ /\ A \in Weighted(StarEdges, FewWeights) \cup {Zeros}
        /\ R = [given |-> TRUE, M |-> Relabel(A)]
  /\ frac = <<1, 2>>
  /\ energy_type = "sse"
  /\ energy_func = "None"

\* every energy_type, with the caller's R;
S_ArgsEnergies ==
  /\ nstage = NStage /\ niter = NIter
  /\ init_temp = <<DefaultTemp, 1>>
  /\ A \in Weighted(PathEdges, FewWeights)
  /\ R = [given |-> TRUE, M |-> Relabel(A)]
  /\ frac = <<1, 2>>
  /\ energy_type \in EnergyTypes \cup {"bogus"}
  /\ energy_func = "None"

\* every cooling fraction;
S_ArgsFracs ==
  /\ nstage = NStage /\ niter = NIter
  /\ init_temp = <<DefaultTemp, 1>>
  /\ A \in Weighted(PathEdges, FewWeights)
  /\ R = [given |-> FALSE, M |-> Zeros]
  /\ frac \in Fracs
  /\ energy_type = "sse"
  /\ energy_func = "None"

\* a caller's energy function, with a known and an unknown energy_type;
S_ArgsCustom ==
  /\ nstage = NStage /\ niter = NIter
  /\ init_temp = <<DefaultTemp, 1>>
  /\ A \in Weighted(PathEdges, {-1} \cup PositiveWeights)
  /\ R = [given |-> FALSE, M |-> Zeros]
  /\ frac = <<1, 2>>
  /\ energy_type \in {"sse", "bogus"}
  /\ energy_func = "custom"

\* and the 4-cycle, given as R, with nstage = 2, niter = 5, temp = 10,
\* frac = 0.5.
S_ArgsCycle ==
  /\ nstage = 2 /\ niter = 5
  /\ init_temp = <<10, 1>>
  /\ A = Cycle4
  /\ R = [given |-> TRUE, M |-> Cycle4]
  /\ frac = <<1, 2>>
  /\ energy_type = "sse"
  /\ energy_func = "None"

S_Args ==
  /\ variant = "signed"
  /\ (S_ArgsMatrices \/ S_ArgsEnergies \/ S_ArgsFracs \/ S_ArgsCustom
        \/ S_ArgsCycle)

InitSigned == S_Args /\ Fresh

NextSigned ==
  \/ S_CheckFrac
  \/ S_Seed
  \/ S_Rewire
  \/ S_BeginSign
  \/ S_Propose
  \/ S_Cool
  \/ S_EndSign
  \/ S_Return

SpecSigned == InitSigned /\ [][NextSigned]_vars

\* ------------------------------------------------------------------ trajectory variant
\* cpl_func(M) and the mean of bct.clustering_coef_wu on the normalised M:
\* statistics of the matrix, computed outside this code
CharPathLength(M) == [stat |-> "cpl", of |-> M]
MeanClustering(M) == [stat |-> "clustering", of |-> M]

\* the validation of frac in the trajectory variant
T_CheckFrac ==
  /\ variant = "trajectory" /\ pc = "start"
  /\ IF FracInvalid(frac)
     THEN Raise("ValueError")
     ELSE pc' = "checked" /\ err' = err
  /\ UNCHANGED <<args, rs, rewired, split, B, energymin_dict, sign, temp,
                 edges, istage, i, last, traj, ret>>

\* rs = check_random_state(seed)
T_Seed ==
  /\ variant = "trajectory" /\ pc = "checked"
  /\ rs' = TRUE
  /\ pc' = "seeded"
  /\ UNCHANGED <<args, err, rewired, split, B, energymin_dict, sign, temp,
                 edges, istage, i, last, traj, ret>>

\* the energy of the trajectory variant: np.mean(d ** 2)
T_Energy(d) == EnergyOfType("mse", d)

\* the target strengths, the rewiring, the edge list and the first energy
T_Rewire ==
  /\ variant = "trajectory" /\ pc = "seeded"
  /\ \E X \in Rewirings(A) :
       /\ Brw' = X
       /\ u' = EdgeU(X)
       /\ v' = EdgeV(X)
       /\ wts' = EdgeW(X)
       /\ sb' = RowSums(X)
  /\ rewired' = TRUE
  /\ s' = RowSums(A)
  /\ energy' = T_Energy(VecSub(s', sb'))
  /\ energymin' = energy'
  /\ wtsmin' = wts'
  /\ traj' = NoTraj
  /\ temp' = init_temp
  /\ istage' = 0 /\ i' = 0
  /\ pc' = "stage"
  /\ UNCHANGED <<args, err, rs, strengths, signed_B, B, energymin_dict, sign,
                 last, ret>>

\* the head of a stage: the stage's draws rs.randint(m, size = (niter, 2)) and
\* rs.rand(niter).  A draw's value is chosen where the loop body reads it.
T_BeginStage ==
  /\ variant = "trajectory" /\ pc = "stage" /\ istage < nstage
  /\ IF m = 0
     THEN Raise("ValueError")
     ELSE pc' = "loop" /\ err' = err
  /\ i' = 0
  /\ UNCHANGED <<args, rs, rewired, split, B, energymin_dict, sign, temp,
                 edges, istage, last, traj, ret>>

\* delta_energy of the trajectory variant for the edges e1, e2
T_DeltaEnergy(e1, e2) ==
  LET a == u[e1]
      b == v[e1]
      c == u[e2]
      d == v[e2]
      wts_change == wts[e1] - wts[e2]
  IN 2 * wts_change *
       (2 * wts_change + (s[a] - sb[a]) + (s[b] - sb[b])
          - (s[c] - sb[c]) - (s[d] - sb[d]))

\* sb after sb[[a, b]] -= wts_change; sb[[c, d]] += wts_change
T_SbAfter(e1, e2) ==
  LET a == u[e1]
      b == v[e1]
      c == u[e2]
      d == v[e2]
      wts_change == wts[e1] - wts[e2]
      t == [sb EXCEPT ![a] = sb[a] - wts_change, ![b] = sb[b] - wts_change]
  IN [t EXCEPT ![c] = t[c] + wts_change, ![d] = t[d] + wts_change]

\* one pass of the inner loop of the trajectory variant
T_Propose ==
  /\ variant = "trajectory" /\ pc = "loop" /\ i < niter
  /\ \E e1 \in 1..m, e2 \in 1..m :
       LET delta_energy == T_DeltaEnergy(e1, e2)
       IN \E below \in (IF delta_energy < 0 THEN {TRUE}
                        ELSE RandBelowExp(delta_energy)) :
            /\ last' = [proposed |-> TRUE, delta |-> delta_energy,
                        drew |-> TRUE, accepted |-> below]
            /\ IF below
               THEN /\ sb' = T_SbAfter(e1, e2)
                    /\ wts' = SwapWts(wts, e1, e2)
                    /\ energy' = T_Energy(VecSub(sb', s))
                    /\ IF Improves(energy', energymin)
                       THEN energymin' = energy' /\ wtsmin' = wts'
                       ELSE UNCHANGED <<energymin, wtsmin>>
               ELSE UNCHANGED <<sb, wts, energy, energymin, wtsmin>>
  /\ i' = i + 1
  /\ UNCHANGED <<args, pc, err, rs, rewired, split, B, energymin_dict, sign,
                 temp, u, v, s, istage, traj, ret>>

\* the appends made only when the best energy differs from the last record
T_AppendedOnChange(tr, M) ==
  IF Len(tr.energy) > 0 /\ tr.energy[Len(tr.energy)] = energymin
  THEN tr
  ELSE [strengths |-> Append(tr.strengths, RowSums(M)),
        energy |-> Append(tr.energy, energymin),
        cpl |-> Append(tr.cpl, CharPathLength(M)),
        clustering |-> Append(tr.clustering, MeanClustering(M))]

\* the four appends at the end of a stage
T_Appended(tr, M) ==
  [strengths |-> Append(tr.strengths, RowSums(M)),
   energy |-> Append(tr.energy, energymin),
   cpl |-> Append(tr.cpl, CharPathLength(M)),
   clustering |-> Append(tr.clustering, MeanClustering(M))]

\* the end of a stage: the cooling and the stage's records
T_EndStage ==
  /\ variant = "trajectory" /\ pc = "loop" /\ i = niter
  /\ temp' = Cool(temp, frac)
  /\ LET curr_B == Symmetrize(Placed(wtsmin))
     IN /\ B' = curr_B
        /\ traj' = T_Appended(traj, curr_B)
  /\ istage' = istage + 1
  /\ pc' = "stage"
  /\ UNCHANGED <<args, err, rs, rewired, split, energymin_dict, sign, edges,
                 i, last, ret>>

\* the return of the four trajectories
T_Return ==
  /\ variant = "trajectory" /\ pc = "stage" /\ istage = nstage
  /\ ret' = [kind |-> "trajectory",
             value |-> <<traj.strengths, traj.energy, traj.cpl,
                         traj.clustering>>]
  /\ pc' = "done"
  /\ UNCHANGED <<args, err, rs, rewired, split, B, energymin_dict, sign, temp,
                 edges, istage, i, last, traj>>

\* The calls of the trajectory variant the model follows: the positive paths
\* and stars and the empty graph with the default arguments;
T_ArgsMatrices ==
  /\ A \in Weighted(PathEdges, PositiveWeights)
            \cup Weighted(StarEdges, PositiveWeights) \cup {Zeros}
  /\ frac = <<1, 2>>

\* and every cooling fraction.
T_ArgsFracs ==
  /\ A \in Weighted(PathEdges, {1, MaxW})
  /\ frac \in Fracs

T_Args ==
  /\ variant = "trajectory"
  /\ nstage = NStage /\ niter = NIter
  /\ init_temp = <<DefaultTemp, 1>>
  /\ R = [given |-> FALSE, M |-> Zeros]
  /\ energy_type = "mse"
  /\ energy_func = "None"
  /\ (T_ArgsMatrices \/ T_ArgsFracs)

InitTrajectory == T_Args /\ Fresh

NextTrajectory ==
  \/ T_CheckFrac
  \/ T_Seed
  \/ T_Rewire
  \/ T_BeginStage
  \/ T_Propose
  \/ T_EndStage
  \/ T_Return

SpecTrajectory == InitTrajectory /\ [][NextTrajectory]_vars

\* ------------------------------------------------------------------ both variants
Init == InitSigned \/ InitTrajectory

Next ==
  \/ S_CheckFrac
  \/ S_Seed
  \/ S_Rewire
  \/ S_BeginSign
  \/ S_Propose
  \/ S_Cool
  \/ S_EndSign
  \/ S_Return
  \/ T_CheckFrac
  \/ T_Seed
  \/ T_Rewire
  \/ T_BeginStage
  \/ T_Propose
  \/ T_EndStage
  \/ T_Return

Spec == Init /\ [][Next]_vars

\* ------------------------------------------------------------------ properties
\* the values of a sequence with their multiplicities
Multiset(w) ==
  [x \in {w[k] : k \in DOMAIN w} |-> Cardinality({k \in DOMAIN w : w[k] = x})]

\* the non-zero pattern of a matrix
Pattern(X) == {p \in Pairs : X[p] # 0}

\* the matrix the current edge list was extracted from
Substrate == IF variant = "signed" THEN signed_B[Signs[sign]] ELSE Brw

\* the edge list exists and a run is under way
Annealing ==
  \/ variant = "signed" /\ pc = "loop"
  \/ variant = "trajectory" /\ pc \in {"stage", "loop"}

\* the signed variant has returned
SignedDone == variant = "signed" /\ pc = "done"

\* the trajectory variant has rebuilt the matrix of at least one stage
StageRecorded == variant = "trajectory" /\ Len(traj.energy) > 0

\* C1: the second result of the signed variant is the mapping from sign label
\* to that sign's minimum energy, with the best energy of the positive run
\* and of the negative run as two separate entries.
C1_SecondResultIsMapping ==
  SignedDone =>
    /\ ret.energymin.type = "dict"
    /\ DOMAIN ret.energymin.value = {"pos", "neg"}
    /\ ret.energymin.value = energymin_dict

\* C2: the current weights and the best-known weights are each a permutation
\* of the weights extracted from the rewired matrix, and so are the weights
\* of the matrix returned or rebuilt.
C2_WeightMultiset ==
  /\ Annealing =>
       /\ Multiset(wts) = Multiset(EdgeW(Substrate))
       /\ Multiset(wtsmin) = Multiset(EdgeW(Substrate))
  /\ SignedDone => Multiset(EdgeW(ret.B)) = Multiset(EdgeW(Brw))
  /\ StageRecorded => Multiset(EdgeW(B)) = Multiset(EdgeW(Brw))

C2_Witness ==
  /\ SignedDone
  /\ ret.B # Brw
  /\ Len(EdgeIdx(signed_B.pos)) > 1

\* C3: the matrix built from the best weights has the non-zero pattern of
\* the rewired matrix, and u and v stay the endpoints extracted from it.
C3_PatternPreserved ==
  /\ Annealing => u = EdgeU(Substrate) /\ v = EdgeV(Substrate)
  /\ SignedDone => Pattern(ret.B) = Pattern(Brw)
  /\ StageRecorded => Pattern(B) = Pattern(Brw)

C3_Witness ==
  /\ StageRecorded
  /\ wtsmin # EdgeW(Brw)
  /\ B # Brw

\* the energy a run starts from
InitialEnergy ==
  IF variant = "signed"
  THEN S_InitialEnergy(strengths[Signs[sign]], RowSums(signed_B[Signs[sign]]))
  ELSE T_Energy(VecSub(RowSums(A), RowSums(Brw)))

\* C4: within a run the best-known energy never increases from one proposal
\* to the next, it is never above the energy the run started from, and the
\* energies recorded per stage are non-increasing.
C4_BestEnergyMonotone ==
  /\ [][(pc = "loop" /\ pc' # "error") => energymin' <= energymin]_vars
  /\ [](Annealing => energymin <= InitialEnergy)
  /\ [](\A k \in 1..(Len(traj.energy) - 1) :
          traj.energy[k + 1] <= traj.energy[k])

C4_Witness ==
  /\ variant = "trajectory"
  /\ Len(traj.energy) = 2
  /\ traj.energy[2] < traj.energy[1]

\* C5: in the trajectory variant, for every pair of edges and every current
\* state, delta_energy over n is the mean squared error recomputed from the
\* updated strengths minus the mean squared error before the move.
C5_DeltaIsExact ==
  (variant = "trajectory" /\ pc = "loop") =>
    \A e1 \in 1..m, e2 \in 1..m :
      T_DeltaEnergy(e1, e2) = T_Energy(VecSub(T_SbAfter(e1, e2), s)) - energy

\* C6: on the 4-cycle with weights 1, 2, 3, 4 given as the rewired matrix,
\* nstage = 2, niter = 5, temp = 10 and frac = 0.5, the signed variant ends
\* without an error, returning the same four edge slots and a best energy
\* not above the initial one.
C6_CycleRunReturns ==
  (/\ variant = "signed" /\ A = Cycle4 /\ R.given /\ R.M = Cycle4
   /\ nstage = 2 /\ niter = 5 /\ init_temp = <<10, 1>> /\ frac = <<1, 2>>) =>
    /\ err = "none"
    /\ pc = "done" => Pattern(ret.B) = Pattern(Cycle4)

\* C7: the matrix the signed variant returns, and every matrix the trajectory
\* variant rebuilds, is symmetric with a zero diagonal.
C7_Symmetric ==
  /\ SignedDone =>
       /\ \A p \in Pairs : ret.B[p] = ret.B[<<p[2], p[1]>>]
       /\ \A k \in Nodes : ret.B[<<k, k>>] = 0
  /\ StageRecorded =>
       /\ \A p \in Pairs : B[p] = B[<<p[2], p[1]>>]
       /\ \A k \in Nodes : B[<<k, k>>] = 0

C7_Witness ==
  /\ SignedDone
  /\ Cardinality(Pattern(ret.B)) = 2 * Cardinality(PathEdges)

\* C8: in the signed variant weights move only within their sign: a slot
\* that is positive (negative) in the rewired matrix is positive (negative)
\* in the output, the diagonal is zero, and the output has as many edges as
\* the positive and the negative part of the rewired matrix together.
C8_SignedDecomposition ==
  /\ (variant = "signed" /\ pc = "loop") =>
       \A k \in 1..m : (wts[k] > 0) = (Signs[sign] = "pos")
  /\ SignedDone =>
       /\ \A p \in Pairs : /\ Brw[p] > 0 => ret.B[p] > 0
                           /\ Brw[p] < 0 => ret.B[p] < 0
       /\ \A k \in Nodes : ret.B[<<k, k>>] = 0
       /\ Len(EdgeIdx(ret.B)) =
            Len(EdgeIdx(signed_B.pos)) + Len(EdgeIdx(signed_B.neg))

C8_Witness ==
  /\ SignedDone
  /\ Len(EdgeIdx(signed_B.pos)) > 0
  /\ Len(EdgeIdx(signed_B.neg)) > 1
  /\ ret.B # Brw
  /\ ZeroPositive(ret.B) # ZeroPositive(Brw)

\* C9: with a caller's energy function, the energy of the signed variant is
\* throughout a run the value of the one function of (target strengths,
\* current strengths) that gave the initial energy.
C9_OneConvention ==
  (variant = "signed" /\ energy_func = "custom" /\ pc = "loop") =>
    energy = CustomEnergy(s, sb)

\* frac is in (0, 1]
InUnitInterval(f) == 0 < f[1] /\ f[1] <= f[2]

\* C10: in both variants a frac outside (0, 1] ends the call with the
\* parameter error before the generator exists, before the rewiring and
\* before any proposal; a frac in (0, 1], 1 included, passes the validation.
C10_FracValidatedEagerly ==
  /\ (~InUnitInterval(frac) /\ pc # "start") =>
       /\ pc = "error" /\ err = "ValueError"
       /\ ~rs /\ ~rewired /\ last = NoProposal
  /\ (InUnitInterval(frac) /\ pc = "error") => rs

C10_Witness ==
  /\ variant = "trajectory"
  /\ pc = "error"
  /\ frac = <<3, 2>>

\* C11: in the signed variant an energy_type that is none of the five kinds,
\* with no energy_func, ends the call with the parameter error at the head of
\* the first sign's sub-run: no proposal has been drawn or evaluated, nothing
\* has been written to the output and nothing is returned; with an
\* energy_func the head of a sub-run never raises, whatever energy_type is.
C11_UnknownEnergyType ==
  /\ []((/\ variant = "signed" /\ energy_func = "None"
         /\ energy_type \notin EnergyTypes
         /\ pc \notin {"start", "checked", "seeded", "sign"}) =>
          /\ pc = "error" /\ err = "ValueError"
          /\ sign = 1 /\ last = NoProposal /\ wts = <<>>
          /\ B = Zeros /\ energymin_dict = <<>> /\ ret = NoReturn)
  /\ [][(variant = "signed" /\ energy_func # "None" /\ pc = "sign") =>
         pc' = "loop"]_vars

C11_Witness ==
  /\ variant = "signed"
  /\ energy_func = "None" /\ energy_type = "bogus"
  /\ pc = "error" /\ rewired

\* the names of the four trajectories
TrajFields == {"strengths", "energy", "cpl", "clustering"}

C13_NoDrawUnlessUphill ==
  (variant = "signed" /\ last.proposed /\ last.delta <= 0) =>
    last.accepted /\ ~last.drew

\* C13 as amended: in the signed variant the uniform draw is read exactly
\* when energy_prime is not strictly below the current energy, equality
\* included, and a proposal strictly below it is accepted without a draw.
C13_DrawUnlessStrictlyDownhill ==
  (variant = "signed" /\ last.proposed) =>
    /\ last.drew <=> last.delta >= 0
    /\ last.delta < 0 => last.accepted

C13_Witness ==
  /\ variant = "signed" /\ last.proposed
  /\ last.delta = 0 /\ last.drew /\ last.accepted
  /\ energymin < InitialEnergy

\* the strengths of the matrix implied by u, v and the weights w
ImpliedStrengths(w) == RowSums(Symmetrize(Placed(w)))

\* the energy of a strength vector x against the target, by the metric of
\* the run
MetricOf(x) ==
  IF variant = "signed" THEN S_ProposalEnergy(x, s)
  ELSE T_Energy(VecSub(x, s))

\* the energy of the strengths after the weights of e1 and e2 are exchanged
CandidateEnergy(e1, e2) == MetricOf(ImpliedStrengths(SwapWts(wts, e1, e2)))

\* the energy change the loop body computes for e1, e2
ComputedDelta(e1, e2) ==
  IF variant = "signed"
  THEN S_ProposalEnergy(S_SbPrime(e1, e2), s) - energy
  ELSE T_DeltaEnergy(e1, e2)

\* a step that is one pass of the inner loop
ProposalStep == pc = "loop" /\ pc' = "loop" /\ i' = i + 1

\* C14: in both variants no proposal whose candidate energy, the energy of
\* the strengths after the swap, is strictly below the current energy is
\* rejected: a rejected proposal is none of the pairs of edges, pairs with a
\* shared endpoint included, that would lower the energy.
C14_DownhillAccepted ==
  [][(ProposalStep /\ ~last'.accepted) =>
       \A e1 \in 1..m, e2 \in 1..m :
         ComputedDelta(e1, e2) = last'.delta =>
           CandidateEnergy(e1, e2) >= energy]_vars

\* C15: in both variants, throughout a run, sb is the row sums of the
\* symmetric matrix implied by u, v and the current weights, and a proposal
\* changes the strength of a node only if it is accepted and the node is an
\* endpoint of one of the two edges whose weights it exchanged.
C15_StrengthBookkeeping ==
  /\ [](Annealing => sb = ImpliedStrengths(wts))
  /\ [][ProposalStep =>
         \A k \in Nodes :
           sb'[k] # sb[k] =>
             /\ last'.accepted
             /\ \E e \in 1..m : wts'[e] # wts[e] /\ k \in {u[e], v[e]}]_vars

C15_Witness ==
  /\ Annealing /\ last.accepted
  /\ sb # RowSums(Substrate)
  /\ \E e1 \in 1..m, e2 \in 1..m :
       /\ e1 # e2
       /\ {u[e1], v[e1]} \cap {u[e2], v[e2]} # {}
       /\ wts = SwapWts(EdgeW(Substrate), e1, e2)

\* the energy metric of the run on (target strengths, strengths x)
TargetMetric(x) ==
  IF variant = "signed" THEN S_InitialEnergy(s, x)
  ELSE T_Energy(VecSub(s, x))

\* C16: in every state of a run of either variant the current energy is the
\* energy metric on (target strengths, sb), the best energy is not above the
\* current energy and is the metric on the strengths of the matrix rebuilt
\* from the best weights; and each energy the trajectory variant records is
\* the mean squared error between the strengths recorded with it and the
\* target strengths.
C16_CheckpointConsistency ==
  /\ Annealing =>
       /\ energy = TargetMetric(sb)
       /\ energymin <= energy
       /\ energymin = TargetMetric(ImpliedStrengths(wtsmin))
  /\ StageRecorded =>
       \A k \in 1..Len(traj.energy) :
         traj.energy[k] = T_Energy(VecSub(traj.strengths[k], RowSums(A)))

\* C17: in both variants a rejected proposal leaves the weights, sb, the
\* current energy, the best energy, the best weights and the temperature as
\* they were; an accepted one exchanges two entries of the weights, makes sb
\* the strengths after the exchange and the current energy their energy, and
\* leaves the temperature alone.
C17_RejectionFrame ==
  [][ProposalStep =>
       IF last'.accepted
       THEN /\ \E e1 \in 1..m, e2 \in 1..m : wts' = SwapWts(wts, e1, e2)
            /\ sb' = ImpliedStrengths(wts')
            /\ energy' = MetricOf(sb')
            /\ temp' = temp
       ELSE UNCHANGED <<wts, sb, energy, energymin, wtsmin, temp>>]_vars

C17_Witness ==
  /\ variant = "signed" /\ pc = "loop"
  /\ last.proposed /\ ~last.accepted
  /\ wts # EdgeW(Substrate)
  /\ energymin < energy

RECURSIVE Pow(_, _)
Pow(b, k) == IF k = 0 THEN 1 ELSE b * Pow(b, k - 1)

\* temp0 * frac^k
ScheduledTemp(k) ==
  <<init_temp[1] * Pow(frac[1], k), init_temp[2] * Pow(frac[2], k)>>

\* C18: the temperature does not change across a proposal and is multiplied
\* by frac once at the end of each stage, so that throughout stage k of a run
\* it is temp0 * frac^k; in the signed variant this holds of the negative
\* sub-run as of the positive one, the temperature being set back to temp0
\* at its head.
C18_CoolingSchedule ==
  /\ [](Annealing => temp = ScheduledTemp(istage))
  /\ [][ProposalStep => temp' = temp]_vars
  /\ [][(variant = "signed" /\ pc = "sign" /\ pc' = "loop") =>
         temp' = init_temp]_vars

C18_Witness ==
  /\ variant = "signed" /\ sign = 2 /\ pc = "loop"
  /\ istage = 1 /\ i = 1
  /\ temp = <<DefaultTemp, 2>>

\* ------------------------------------------------------------------ termination
\* The calls followed to their end: every energy_type, every cooling
\* fraction and the 4-cycle for the signed variant, every cooling fraction
\* for the trajectory variant.
InitFair ==
  /\ \/ variant = "signed" /\ (S_ArgsEnergies \/ S_ArgsFracs \/ S_ArgsCycle)
     \/ T_Args /\ T_ArgsFracs
  /\ Fresh

\* The function is one sequential thread: a statement that can run does run.
FairSpec == InitFair /\ [][Next]_vars /\ WF_vars(Next)

\* the proposals made so far in the current run
Proposals == IF pc = "stage" THEN istage * niter ELSE istage * niter + i

\* the matrix has an entry of either sign
BothSigns(M) == (\E p \in Pairs : M[p] > 0) /\ (\E q \in Pairs : M[q] < 0)

\* frac and the energy arguments pass the validation and every run has an
\* edge to draw
ValidCall ==
  /\ InUnitInterval(frac)
  /\ ~S_EnergyUndefined
  /\ IF variant = "signed"
     THEN BothSigns(A) /\ (R.given => BothSigns(R.M))
     ELSE A # Zeros

\* a step that ends a run: the end of a sign's sub-run or the return of the
\* trajectories
RunEnds ==
  \/ variant = "signed" /\ pc = "loop" /\ pc' \in {"sign", "return"}
  \/ variant = "trajectory" /\ pc = "stage" /\ pc' = "done"

\* C19: a call with valid parameters and an edge to draw in every run counts
\* one proposal per pass of the inner loop and none at the end of a stage,
\* ends a run only when nstage * niter proposals have been made, whatever
\* the current and the best energy are, never raises, and returns.
C19_FixedBudget ==
  /\ [][(Annealing /\ Annealing') =>
         Proposals' = (IF ProposalStep THEN Proposals + 1 ELSE Proposals)]_vars
  /\ [][RunEnds => Proposals = nstage * niter]_vars
  /\ [](ValidCall => pc # "error")
  /\ (ValidCall ~> pc = "done")

C19_Witness ==
  /\ SignedDone /\ ValidCall
  /\ Brw = A
  /\ energymin_dict["pos"] = 0 /\ energymin_dict["neg"] = 0
  /\ istage = nstage /\ last.proposed

====
